---- MODULE Spec2Model ----
(***************************************************************************)
(* Model of gfi/populate.py: the pipeline that reads the configured list   *)
(* of repository URLs, asks the issue tracker for each repository's open   *)
(* "good first issue" issues, accumulates one record per qualifying        *)
(* repository, tweets repositories that are not yet in the tweets table,   *)
(* and finally shuffles the records and writes data/generated.json.        *)
(*                                                                         *)
(* A run of the script is a process p.  Its position is pc[p]:             *)
(*   "idle"     no run under way                                           *)
(*   "loop"     at the head of the for loop (line 145), entry idx[p]       *)
(*   "check"    record appended, about to call dao.is_repo_tweeted (152)   *)
(*   "tweet"    about to call twitter_client.tweet_repo (154)              *)
(*   "insert"   tweet posted, about to call dao.insert_tweet (156)         *)
(*   "done"     generated.json written (165)                               *)
(*   "aborted"  an exception escaped the script                            *)
(***************************************************************************)
EXTENDS Integers, Sequences, FiniteSets, TLC

\* ---------------------------------------------------------------- bounds
MaxUrls == 2      \* longest configured URL list
MaxIssues == 2    \* most open labelled issues the tracker holds for a repository
MaxShortUrls == 1 \* longest configured URL list of the overlapping and the fair runs

\* ------------------------------------------------------ program constants
ISSUE_LIMIT == 10

Procs == {1, 2}

\* The configured URL strings, as <<host, owner, name>>.
Urls ==
  { <<"github.com", "o", "a">>,
    <<"github.com", "o", "b">>,
    <<"gitlab.com", "o", "a">> }

\* DATA["repositories"]: any list of at most n configured URLs.
UrlLists(n) == UNION { [1..m -> Urls] : m \in 0..n }

\* GH_URL_PATTERN.search(url): owner and name are non-empty runs of [\w.-]
\* following the host github.com.
GH_URL_PATTERN(url) == url[1] = "github.com" /\ url[2] # "" /\ url[3] # ""

\* parse_github_url: the groupdict of the match, or {} (here the record
\* with empty owner and name, which is falsy like {}).
NoMatch == [owner |-> "", name |-> ""]

parse_github_url(url) ==
  IF GH_URL_PATTERN(url) THEN [owner |-> url[2], name |-> url[3]] ELSE NoMatch

Truthy(repo_dict) == repo_dict # NoMatch

\* twitter_client.get_repo_url(repo_dict): the announcement key, derived
\* from owner and name.
get_repo_url(repo_dict) == <<"gfi", repo_dict.owner, repo_dict.name>>

Min(a, b) == IF a < b THEN a ELSE b

\* repository.issues(labels, state="open", number=ISSUE_LIMIT, sort="created",
\* direction="desc") on a repository holding n such issues: the newest
\* ISSUE_LIMIT of them, newest first, by issue number.
TrackerIssues(n) == [j \in 1..Min(n, ISSUE_LIMIT) |-> n + 1 - j]

\* The info dict get_repository_info builds (lines 99-123); the metadata
\* fields that no operation of the driver reads are left out.
Info(dict, good_first_issues) ==
  [owner |-> dict.owner, name |-> dict.name, issues |-> good_first_issues]

\* dao.is_repo_tweeted(url): is there a row for url in the tweets table.
is_repo_tweeted(table, url) == \E j \in 1..Len(table) : table[j] = url

\* dao.insert_tweet(url, timestamp): append a row (the timestamp column is
\* not modelled).
insert_tweet(table, url) == Append(table, url)

\* A reordering that may repeat and drop elements (random.choices in place
\* of random.shuffle).
ShufflesWithRepeats(s) ==
  { [j \in 1..Len(s) |-> s[f[j]]] : f \in [1..Len(s) -> 1..Len(s)] }

\* random.shuffle(REPOSITORIES): any reordering of the list.
Shuffles(s) ==
  { [j \in 1..Len(s) |-> s[f[j]]] : f \in Permutations(1..Len(s)) }

VARIABLES
  pc,            \* pc[p]: position of run p
  DATA,          \* DATA[p]: the URL list run p loaded (line 141)
  access_token,  \* access_token[p]: GITHUB_ACCESS_TOKEN is set in p's environment
  idx,           \* idx[p]: index of the loop's current entry
  REPOSITORIES,  \* REPOSITORIES[p]: the accumulated records
  calls,         \* calls[p][i]: what run p did for entry i (calls made, outcomes)
  tweets_table,  \* rows of the tweets table of goodfirstissues.db
  timeline,      \* tweets posted on the feed, by announcement key
  generated      \* content of data/generated.json

vars == <<pc, DATA, access_token, idx, REPOSITORIES, calls, tweets_table,
          timeline, generated>>

\* What a run records per entry: result of the fetch, number of tracker
\* fetches, number of issues the tracker returned (-1: no answer), answer of
\* is_repo_tweeted, number of tweet_repo calls and the outcome of the call,
\* number of insert_tweet calls.
NoCall ==
  [res |-> "none", fetches |-> 0, found |-> -1, tweeted |-> "none",
   tweets |-> 0, post |-> "none", inserts |-> 0]

Init ==
  /\ pc = [p \in Procs |-> "idle"]
  /\ DATA = [p \in Procs |-> <<>>]
  /\ access_token = [p \in Procs |-> TRUE]
  /\ idx = [p \in Procs |-> 1]
  /\ REPOSITORIES = [p \in Procs |-> <<>>]
  /\ calls = [p \in Procs |-> <<>>]
  /\ tweets_table = <<>>
  /\ timeline = <<>>
  /\ generated = <<>>

Idle(p) == pc[p] = "idle"

Stopped(p) == pc[p] \in {"done", "aborted"}

InLoop(p) == pc[p] = "loop" /\ idx[p] <= Len(DATA[p])

repo_dict(p) == parse_github_url(DATA[p][idx[p]])

repo_gfi_url(p) == get_repo_url(repo_dict(p))

NextUrl(p) ==
  /\ pc' = [pc EXCEPT ![p] = "loop"]
  /\ idx' = [idx EXCEPT ![p] = idx[p] + 1]

\* Lines 136-144: the config file exists and is loaded, the store and the
\* twitter client are prepared, REPOSITORIES is empty.
StartRun(p, urls, token) ==
  /\ Idle(p)
  /\ pc' = [pc EXCEPT ![p] = "loop"]
  /\ DATA' = [DATA EXCEPT ![p] = urls]
  /\ access_token' = [access_token EXCEPT ![p] = token]
  /\ idx' = [idx EXCEPT ![p] = 1]
  /\ REPOSITORIES' = [REPOSITORIES EXCEPT ![p] = <<>>]
  /\ calls' = [calls EXCEPT ![p] = [j \in 1..Len(urls) |-> NoCall]]
  /\ UNCHANGED <<tweets_table, timeline, generated>>

\* Lines 146-147: the URL does not match, the entry is skipped.
ParseSkip(p) ==
  /\ InLoop(p)
  /\ ~Truthy(repo_dict(p))
  /\ calls' = [calls EXCEPT ![p][idx[p]].res = "unparsed"]
  /\ NextUrl(p)
  /\ UNCHANGED <<DATA, access_token, REPOSITORIES, tweets_table, timeline,
                 generated>>

\* Lines 75-77: no access token, AssertionError; nothing catches it.
GetInfoNoToken(p) ==
  /\ InLoop(p)
  /\ Truthy(repo_dict(p))
  /\ ~access_token[p]
  /\ calls' = [calls EXCEPT ![p][idx[p]].res = "notoken"]
  /\ pc' = [pc EXCEPT ![p] = "aborted"]
  /\ UNCHANGED <<DATA, access_token, idx, REPOSITORIES, tweets_table,
                 timeline, generated>>

\* The escaping RepoNotFoundException with the dump of lines 164-165 run on
\* the way out (as in a finally clause).
GetInfoNotFoundDump(p) ==
  /\ InLoop(p)
  /\ Truthy(repo_dict(p))
  /\ access_token[p]
  /\ calls' = [calls EXCEPT ![p][idx[p]] =
                 [@ EXCEPT !.res = "notfound", !.fetches = @ + 1]]
  /\ generated' = REPOSITORIES[p]
  /\ pc' = [pc EXCEPT ![p] = "aborted"]
  /\ UNCHANGED <<DATA, access_token, idx, REPOSITORIES, tweets_table,
                 timeline>>

\* Lines 86, 127-128: the tracker answers NotFoundError, get_repository_info
\* raises RepoNotFoundException; the loop (145-158) catches TweetException
\* only, so the exception leaves the script.
GetInfoNotFound(p) ==
  /\ InLoop(p)
  /\ Truthy(repo_dict(p))
  /\ access_token[p]
  /\ calls' = [calls EXCEPT ![p][idx[p]] =
                 [@ EXCEPT !.res = "notfound", !.fetches = @ + 1]]
  /\ pc' = [pc EXCEPT ![p] = "aborted"]
  /\ UNCHANGED <<DATA, access_token, idx, REPOSITORIES, tweets_table,
                 timeline, generated>>

\* get_repository_info that returns the info dict whether or not the
\* repository has a labelled issue (the test of line 97 dropped).
GetInfoAlways(p, n) ==
  /\ InLoop(p)
  /\ Truthy(repo_dict(p))
  /\ access_token[p]
  /\ LET good_first_issues == TrackerIssues(n) IN
       /\ calls' = [calls EXCEPT ![p][idx[p]] =
                      [@ EXCEPT !.res = "fetched", !.fetches = @ + 1,
                                !.found = Len(good_first_issues)]]
       /\ REPOSITORIES' = [REPOSITORIES EXCEPT ![p] =
             Append(@, Info(repo_dict(p), good_first_issues))]
       /\ pc' = [pc EXCEPT ![p] = "check"]
       /\ UNCHANGED idx
  /\ UNCHANGED <<DATA, access_token, tweets_table, timeline, generated>>

\* Lines 86-126, 148-151: the repository exists and holds n open labelled
\* issues.  With at least one issue the info dict is returned and appended
\* to REPOSITORIES; with none get_repository_info returns None and the
\* entry is skipped.
GetInfo(p, n) ==
  /\ InLoop(p)
  /\ Truthy(repo_dict(p))
  /\ access_token[p]
  /\ LET good_first_issues == TrackerIssues(n) IN
       /\ calls' = [calls EXCEPT ![p][idx[p]] =
                      [@ EXCEPT !.res = "fetched", !.fetches = @ + 1,
                                !.found = Len(good_first_issues)]]
       /\ IF good_first_issues # <<>>
            THEN /\ REPOSITORIES' = [REPOSITORIES EXCEPT ![p] =
                       Append(@, Info(repo_dict(p), good_first_issues))]
                 /\ pc' = [pc EXCEPT ![p] = "check"]
                 /\ UNCHANGED idx
            ELSE /\ NextUrl(p)
                 /\ UNCHANGED REPOSITORIES
  /\ UNCHANGED <<DATA, access_token, tweets_table, timeline, generated>>

\* The driver without the test of line 152: every qualifying repository is
\* tweeted.
CheckTweetedBlind(p) ==
  /\ pc[p] = "check"
  /\ calls' = [calls EXCEPT ![p][idx[p]].tweeted = "no"]
  /\ pc' = [pc EXCEPT ![p] = "tweet"]
  /\ UNCHANGED <<DATA, access_token, idx, REPOSITORIES, tweets_table,
                 timeline, generated>>

\* Line 152: dao.is_repo_tweeted(repo_gfi_url).
CheckTweeted(p) ==
  /\ pc[p] = "check"
  /\ IF is_repo_tweeted(tweets_table, repo_gfi_url(p))
       THEN /\ calls' = [calls EXCEPT ![p][idx[p]].tweeted = "yes"]
            /\ NextUrl(p)
       ELSE /\ calls' = [calls EXCEPT ![p][idx[p]].tweeted = "no"]
            /\ pc' = [pc EXCEPT ![p] = "tweet"]
            /\ UNCHANGED idx
  /\ UNCHANGED <<DATA, access_token, REPOSITORIES, tweets_table, timeline,
                 generated>>

\* Line 154: twitter_client.tweet_repo(repo_dict) posts the tweet.
TweetOk(p) ==
  /\ pc[p] = "tweet"
  /\ timeline' = Append(timeline, repo_gfi_url(p))
  /\ calls' = [calls EXCEPT ![p][idx[p]] =
                 [@ EXCEPT !.post = "ok", !.tweets = @ + 1]]
  /\ pc' = [pc EXCEPT ![p] = "insert"]
  /\ UNCHANGED <<DATA, access_token, idx, REPOSITORIES, tweets_table,
                 generated>>

\* A handler of TweetException that calls tweet_repo again.
TweetFailRetry(p) ==
  /\ pc[p] = "tweet"
  /\ calls' = [calls EXCEPT ![p][idx[p]] =
                 [@ EXCEPT !.post = "fail", !.tweets = @ + 1]]
  /\ UNCHANGED <<pc, idx, DATA, access_token, REPOSITORIES, tweets_table,
                 timeline, generated>>

\* insert_tweet placed after the try block: the row is written although the
\* tweet failed.
TweetFailRecords(p) ==
  /\ pc[p] = "tweet"
  /\ calls' = [calls EXCEPT ![p][idx[p]] =
                 [@ EXCEPT !.post = "fail", !.tweets = @ + 1]]
  /\ tweets_table' = insert_tweet(tweets_table, repo_gfi_url(p))
  /\ NextUrl(p)
  /\ UNCHANGED <<DATA, access_token, REPOSITORIES, timeline, generated>>

\* Lines 154, 157-158: tweet_repo raises TweetException; it is logged and
\* the loop goes on.
TweetFail(p) ==
  /\ pc[p] = "tweet"
  /\ calls' = [calls EXCEPT ![p][idx[p]] =
                 [@ EXCEPT !.post = "fail", !.tweets = @ + 1]]
  /\ NextUrl(p)
  /\ UNCHANGED <<DATA, access_token, REPOSITORIES, tweets_table, timeline,
                 generated>>

\* Lines 155-156: dao.insert_tweet(repo_gfi_url, current_timestamp).
InsertTweet(p) ==
  /\ pc[p] = "insert"
  /\ tweets_table' = insert_tweet(tweets_table, repo_gfi_url(p))
  /\ calls' = [calls EXCEPT ![p][idx[p]].inserts = @ + 1]
  /\ NextUrl(p)
  /\ UNCHANGED <<DATA, access_token, REPOSITORIES, timeline, generated>>

\* Lines 160-166: the loop is over; shuffle REPOSITORIES and dump it.
WriteGenerated(p) ==
  /\ pc[p] = "loop"
  /\ idx[p] > Len(DATA[p])
  /\ \E shuffled \in Shuffles(REPOSITORIES[p]) :
       /\ REPOSITORIES' = [REPOSITORIES EXCEPT ![p] = shuffled]
       /\ generated' = shuffled
  /\ pc' = [pc EXCEPT ![p] = "done"]
  /\ UNCHANGED <<DATA, access_token, idx, calls, tweets_table, timeline>>

\* The script's process ends, after line 166 or on the uncaught exception;
\* its memory is gone, the table, the feed and the file stay.
Exit(p) ==
  /\ Stopped(p)
  /\ pc' = [pc EXCEPT ![p] = "idle"]
  /\ DATA' = [DATA EXCEPT ![p] = <<>>]
  /\ access_token' = [access_token EXCEPT ![p] = TRUE]
  /\ idx' = [idx EXCEPT ![p] = 1]
  /\ REPOSITORIES' = [REPOSITORIES EXCEPT ![p] = <<>>]
  /\ calls' = [calls EXCEPT ![p] = <<>>]
  /\ UNCHANGED <<tweets_table, timeline, generated>>

\* One step of a run under way, whatever the tracker and the feed answer;
\* counts are the numbers of labelled issues a repository may hold.
RunStep(p, counts) ==
  \/ ParseSkip(p)
  \/ GetInfoNoToken(p)
  \/ GetInfoNotFound(p)
  \/ \E n \in counts : GetInfo(p, n)
  \/ CheckTweeted(p)
  \/ TweetOk(p)
  \/ TweetFail(p)
  \/ InsertTweet(p)
  \/ WriteGenerated(p)

\* Every number of labelled issues up to the bound.
AnyCount == 0..MaxIssues

\* No labelled issue, or as many as the bound allows: the sequences of runs
\* and the overlapping runs tell a repository that qualifies from one that
\* does not, not how many issues it has.
NoneOrMany == {0, MaxIssues}

\* Scheduled runs that do not overlap: a run starts when no other is under way.
StartAlone(p) ==
  /\ \A q \in Procs : Idle(q)
  /\ \E urls \in UrlLists(MaxUrls), token \in BOOLEAN : StartRun(p, urls, token)

\* The same, on the short URL lists.
StartShort(p) ==
  /\ \A q \in Procs : Idle(q)
  /\ \E urls \in UrlLists(MaxShortUrls), token \in BOOLEAN :
       StartRun(p, urls, token)

\* An instance started whatever the other does, on the same configuration file.
StartAny(p) ==
  \E urls \in UrlLists(MaxShortUrls), token \in BOOLEAN :
    /\ \A q \in Procs : ~Idle(q) => DATA[q] = urls
    /\ StartRun(p, urls, token)

Main == 1

\* Any sequence of runs of the one scheduled instance.
Next == StartAlone(Main) \/ RunStep(Main, NoneOrMany) \/ Exit(Main)

Spec == Init /\ [][Next]_vars

\* Any sequence of runs, where the scheduler keeps starting the script and
\* the script keeps running.
NextLive == StartShort(Main) \/ RunStep(Main, NoneOrMany) \/ Exit(Main)

SpecLive == Init /\ [][NextLive]_vars /\ WF_vars(NextLive)

\* Two instances, one run each, which may overlap.
NextConc == \E p \in Procs : StartAny(p) \/ RunStep(p, NoneOrMany)

SpecConc == Init /\ [][NextConc]_vars

\* The announcement keys of the configured URLs.
Keys ==
  { get_repo_url(parse_github_url(u)) : u \in { v \in Urls : GH_URL_PATTERN(v) } }

Range(s) == { s[j] : j \in 1..Len(s) }

Count(s, x) == Cardinality({ j \in 1..Len(s) : s[j] = x })

\* The tables a sequence of runs can leave: at most one row per key.
Tables ==
  { t \in UNION { [1..m -> Keys] : m \in 0..Cardinality(Keys) } :
      \A k \in Keys : Count(t, k) <= 1 }

\* One run, started on any such table, before any snapshot was written.
InitRun ==
  /\ pc = [p \in Procs |-> "idle"]
  /\ DATA = [p \in Procs |-> <<>>]
  /\ access_token = [p \in Procs |-> TRUE]
  /\ idx = [p \in Procs |-> 1]
  /\ REPOSITORIES = [p \in Procs |-> <<>>]
  /\ calls = [p \in Procs |-> <<>>]
  /\ tweets_table \in Tables
  /\ timeline = tweets_table
  /\ generated = <<>>

NextRun == StartAlone(Main) \/ RunStep(Main, AnyCount)

SpecRun == InitRun /\ [][NextRun]_vars

\* ------------------------------------------------------------------------
\* Properties

Entries(p) == DOMAIN calls[p]

DictAt(p, i) == parse_github_url(DATA[p][i])

KeyAt(p, i) == get_repo_url(DictAt(p, i))

\* s holds a record of the repository dict names.
HasRecord(s, dict) ==
  \E j \in 1..Len(s) : s[j].owner = dict.owner /\ s[j].name = dict.name

\* C1: over any sequence of non-overlapping runs the tweets table never
\* holds two rows for one announcement key, and a row is inserted only by a
\* run whose is_repo_tweeted said no for the key and whose tweet succeeded.
C1_OneRowPerKey ==
  /\ \A k \in Keys : Count(tweets_table, k) <= 1
  /\ \A p \in Procs :
       pc[p] = "insert" =>
         /\ calls[p][idx[p]].tweeted = "no"
         /\ calls[p][idx[p]].post = "ok"
         /\ ~is_repo_tweeted(tweets_table, repo_gfi_url(p))
  /\ \A p \in Procs : \A i \in Entries(p) :
       calls[p][i].inserts > 0 =>
         /\ calls[p][i].inserts = 1
         /\ calls[p][i].tweeted = "no"
         /\ calls[p][i].post = "ok"

\* A run over a list naming one repository twice, on a table that already
\* holds another key: the first entry's tweet failed, the second one's
\* succeeded and was recorded.
C1_Witness ==
  /\ pc[Main] = "done"
  /\ Len(DATA[Main]) = 2
  /\ DATA[Main][1] = DATA[Main][2]
  /\ calls[Main][1].post = "fail"
  /\ calls[Main][2].inserts = 1
  /\ Len(tweets_table) = 2
  /\ Count(tweets_table, KeyAt(Main, 1)) = 1

\* C2: when the tracker reports that the repository does not exist, the
\* driver skips the entry and goes on with the next one.
C2_NotFoundIsSkipped ==
  \A p \in Procs : \A i \in Entries(p) :
    calls[p][i].res = "notfound" => pc[p] # "aborted" /\ idx[p] > i

\* C3: after a failed tweet the run goes on, the repository's record stays
\* in REPOSITORIES and reaches the snapshot, and the run inserts no row for
\* the repository's key.
C3_FailedTweetKeepsRecord ==
  \A p \in Procs : \A i \in Entries(p) :
    calls[p][i].post = "fail" =>
      /\ pc[p] # "aborted"
      /\ HasRecord(REPOSITORIES[p], DictAt(p, i))
      /\ pc[p] = "done" => HasRecord(generated, DictAt(p, i))
      /\ \A j \in Entries(p) :
           KeyAt(p, j) = KeyAt(p, i) => calls[p][j].inserts = 0

\* C4: the snapshot a run writes holds a record of a configured repository
\* exactly when the tracker returned at least one labelled open issue for
\* it during the run.
C4_SnapshotIffIssues ==
  pc[Main] = "done" =>
    \A i \in Entries(Main) :
      Truthy(DictAt(Main, i)) =>
        ( HasRecord(generated, DictAt(Main, i))
          <=> \E j \in Entries(Main) :
                DictAt(Main, j) = DictAt(Main, i) /\ calls[Main][j].found >= 1 )

\* A run over two repositories: the first, already announced, had no issue
\* and is absent from the snapshot; the second had issues and is in it.
C4_Witness ==
  /\ pc[Main] = "done"
  /\ Len(DATA[Main]) = 2
  /\ calls[Main][1].found = 0
  /\ is_repo_tweeted(tweets_table, KeyAt(Main, 1))
  /\ ~HasRecord(generated, DictAt(Main, 1))
  /\ calls[Main][2].found >= 1
  /\ HasRecord(generated, DictAt(Main, 2))

\* C5: for a qualifying repository whose key is already in the table no
\* tweet is attempted and no row is inserted, and its record is accumulated
\* and reaches the snapshot.
C5_AnnouncedRepoInSnapshot ==
  \A p \in Procs : \A i \in Entries(p) :
    calls[p][i].tweeted = "yes" =>
      /\ calls[p][i].tweets = 0
      /\ calls[p][i].inserts = 0
      /\ HasRecord(REPOSITORIES[p], DictAt(p, i))
      /\ pc[p] # "aborted"
      /\ pc[p] = "done" => HasRecord(generated, DictAt(p, i))

\* What the original wording of C7 and the amended one share: the scenario
\* of one configured URL whose repository has 2 labelled issues and whose key
\* is not in the table.
OneUrlTwoIssues ==
  /\ Len(DATA[Main]) = 1
  /\ calls[Main][1].found = 2
  /\ calls[Main][1].tweeted = "no"

\* C7, as amended: no call is repeated.  Per entry the tracker is asked at
\* most once and tweet_repo is called at most once; for an entry the loop
\* has handled the tracker was asked exactly once if the URL parses, and
\* tweet_repo was called exactly once if the repository qualified and
\* is_repo_tweeted said no; entries the loop did not reach got no call.
\* One URL with 2 issues and an unrecorded key gives one tweet_repo call
\* and a snapshot of one record, and one new row if the tweet succeeded,
\* none if it failed.
C7_NoRetries ==
  /\ \A i \in Entries(Main) :
       LET c == calls[Main][i] IN
         /\ c.fetches <= 1 /\ c.tweets <= 1 /\ c.inserts <= 1
         /\ idx[Main] > i =>
              /\ c.fetches = (IF Truthy(DictAt(Main, i)) THEN 1 ELSE 0)
              /\ c.tweets = (IF c.found >= 1 /\ c.tweeted = "no" THEN 1 ELSE 0)
         /\ idx[Main] < i => c.fetches = 0 /\ c.tweets = 0
         /\ c.tweeted = "yes" => c.found >= 1
  /\ \A p \in Procs :
       pc[p] = "tweet" => ~is_repo_tweeted(tweets_table, repo_gfi_url(p))
  /\ (pc[Main] = "done" /\ OneUrlTwoIssues) =>
       /\ calls[Main][1].tweets = 1
       /\ Len(generated) = 1
       /\ Len(generated[1].issues) = 2
       /\ calls[Main][1].post = "ok" =>
            Count(tweets_table, KeyAt(Main, 1)) = 1 /\ calls[Main][1].inserts = 1
       /\ calls[Main][1].post = "fail" =>
            Count(tweets_table, KeyAt(Main, 1)) = 0 /\ calls[Main][1].inserts = 0

\* The run of the scenario has ended with the tweet posted and recorded.
C7_Witness ==
  /\ pc[Main] = "done"
  /\ OneUrlTwoIssues
  /\ calls[Main][1].post = "ok"
  /\ Len(tweets_table) = 2

\* C7, as claimed: when the run has reached its end, every entry whose URL
\* parses was fetched exactly once and every qualifying entry with an
\* unrecorded key was tweeted exactly once; the scenario ends with one
\* tweet_repo call, one new row and a snapshot of one record.
C7_ExactlyOncePerEntry ==
  pc[Main] = "done" =>
    /\ \A i \in Entries(Main) :
         LET c == calls[Main][i] IN
           /\ c.fetches = (IF Truthy(DictAt(Main, i)) THEN 1 ELSE 0)
           /\ c.tweets = (IF c.found >= 1 /\ c.tweeted = "no" THEN 1 ELSE 0)
    /\ OneUrlTwoIssues =>
         /\ calls[Main][1].tweets = 1
         /\ Count(tweets_table, KeyAt(Main, 1)) = 1
         /\ Len(generated) = 1

\* s and t hold the same elements the same number of times.
IsPermutation(s, t) ==
  /\ Len(s) = Len(t)
  /\ \A x \in Range(s) \cup Range(t) : Count(s, x) = Count(t, x)

\* C9: the snapshot a run writes is a permutation of the collection the
\* loop accumulated.
C9_SnapshotIsPermutation ==
  [][\A p \in Procs :
       (pc[p] = "loop" /\ pc'[p] = "done") =>
         IsPermutation(generated', REPOSITORIES[p])]_vars

\* A snapshot of two different records, in the order opposite to the one
\* they were accumulated in.
C9_Witness ==
  /\ pc[Main] = "done"
  /\ Len(DATA[Main]) = 2
  /\ Len(generated) = 2
  /\ DictAt(Main, 1) # DictAt(Main, 2)
  /\ generated[1].name = DictAt(Main, 2).name
  /\ generated[2].name = DictAt(Main, 1).name

\* C10: data/generated.json changes only in the step that follows the
\* loop's last entry.  The step in which an exception leaves the loop, and
\* the exit of the process after it, leave the snapshot, the tweets table
\* and the feed as they are, while the records accumulated are gone with
\* the process; the rows inserted and the tweets posted for the entries
\* before the failing one are in the table and on the feed.
C10_AbortKeepsOldSnapshot ==
  /\ [][/\ generated' # generated =>
             \E p \in Procs :
               pc[p] = "loop" /\ idx[p] > Len(DATA[p]) /\ pc'[p] = "done"
        /\ \A p \in Procs :
             (pc[p] = "aborted" \/ pc'[p] = "aborted") =>
               /\ generated' = generated
               /\ tweets_table' = tweets_table
               /\ timeline' = timeline
               /\ pc'[p] = "aborted" \/ (pc'[p] = "idle" /\ REPOSITORIES'[p] = <<>>)]_vars
  /\ [](\A p \in Procs :
          pc[p] = "aborted" =>
            /\ calls[p][idx[p]].res \in {"notfound", "notoken"}
            /\ \A j \in 1..(idx[p] - 1) :
                 /\ calls[p][j].post = "ok" => Count(timeline, KeyAt(p, j)) >= 1
                 /\ calls[p][j].inserts = 1 =>
                      is_repo_tweeted(tweets_table, KeyAt(p, j)))

\* An exception left the loop at the second entry: the first entry's
\* repository was tweeted and recorded, its record is in REPOSITORIES and
\* not in the snapshot, which an earlier run wrote.
C10_Witness ==
  /\ pc[Main] = "aborted"
  /\ idx[Main] = 2
  /\ calls[Main][2].res = "notfound"
  /\ calls[Main][1].inserts = 1
  /\ Len(REPOSITORIES[Main]) = 1
  /\ generated # <<>>
  /\ ~HasRecord(generated, DictAt(Main, 1))
  /\ is_repo_tweeted(tweets_table, KeyAt(Main, 1))

\* The entries of both instances for which key k was tweeted.
Posted(k) ==
  { e \in Procs \X (1..MaxShortUrls) :
      /\ e[2] \in Entries(e[1])
      /\ KeyAt(e[1], e[2]) = k
      /\ calls[e[1]][e[2]].post = "ok" }

\* The entries of both instances for which a row of key k was inserted.
Inserted(k) ==
  { e \in Procs \X (1..MaxShortUrls) :
      /\ e[2] \in Entries(e[1])
      /\ KeyAt(e[1], e[2]) = k
      /\ calls[e[1]][e[2]].inserts = 1 }

\* C6: when two instances overlap, the driver does no more than this: each
\* tweet and each row of a key belongs to an entry of an instance whose own
\* is_repo_tweeted said no and whose own tweet succeeded.  Nothing bounds
\* the rows of a key by one: the state of C6_Witness is reached.
C6_EachInstanceChecksAlone ==
  \A k \in Keys :
    /\ Count(timeline, k) = Cardinality(Posted(k))
    /\ Count(tweets_table, k) = Cardinality(Inserted(k))
    /\ Inserted(k) \subseteq Posted(k)
    /\ \A e \in Posted(k) : calls[e[1]][e[2]].tweeted = "no"

\* Both instances saw the repository as not announced, both tweeted it and
\* both recorded it: two tweets and two rows for one key.
C6_Witness ==
  /\ DATA[1] = DATA[2]
  /\ Len(DATA[1]) = 1
  /\ \A p \in Procs :
       /\ calls[p][1].tweeted = "no"
       /\ calls[p][1].post = "ok"
       /\ calls[p][1].inserts = 1
  /\ Count(timeline, KeyAt(1, 1)) = 2
  /\ Count(tweets_table, KeyAt(1, 1)) = 2

\* The run has ended, a tweet of key k failed in it and none succeeded.
Forfeited(k) ==
  /\ Stopped(Main)
  /\ \E i \in Entries(Main) : KeyAt(Main, i) = k /\ calls[Main][i].post = "fail"
  /\ ~\E i \in Entries(Main) : KeyAt(Main, i) = k /\ calls[Main][i].post = "ok"

Recorded(k) == is_repo_tweeted(tweets_table, k)

Checking(k) == pc[Main] = "check" /\ repo_gfi_url(Main) = k

Tweeting(k) == pc[Main] = "tweet" /\ repo_gfi_url(Main) = k

Tweeted(k) == pc[Main] = "insert" /\ repo_gfi_url(Main) = k

\* A run has reached its end in which the repository of key k qualified.
Qualified(k) ==
  /\ pc[Main] = "done"
  /\ \E i \in Entries(Main) : KeyAt(Main, i) = k /\ calls[Main][i].found >= 1

\* Runs keep ending in which the repository qualifies, and if its tweet is
\* attempted again and again it succeeds once.
FairFor(k) ==
  /\ []<>Qualified(k)
  /\ ([]<>Tweeting(k)) => <>Tweeted(k)

\* C8: a run in which the tweet of key k was forfeited leaves k out of the
\* table; a run that finds a qualifying repository's key out of the table
\* attempts the tweet; if runs keep ending in which the repository
\* qualifies and a tweet succeeds at last, k is recorded in the end; and
\* once k is recorded it stays recorded and is not tweeted again.
C8_ForfeitedIsRetried ==
  /\ [](\A k \in Keys : Forfeited(k) => ~Recorded(k))
  /\ [][\A k \in Keys : (Checking(k) /\ ~Recorded(k)) => Tweeting(k)']_vars
  /\ \A k \in Keys : FairFor(k) => (Forfeited(k) ~> Recorded(k))
  /\ [][\A k \in Keys :
          Recorded(k) =>
            /\ Recorded(k)'
            /\ ~Tweeting(k)'
            /\ Count(timeline', k) = Count(timeline, k)]_vars

\* A later run has ended with its tweet forfeited: the snapshot of an
\* earlier run and the row of another key are there.
C8_Witness ==
  \E k \in Keys :
    /\ Forfeited(k)
    /\ pc[Main] = "done"
    /\ Len(tweets_table) = 1
    /\ HasRecord(generated, DictAt(Main, 1))

====
